---- MODULE Spec2Model ----
(***************************************************************************)
(* Model of the crawl-and-extract engine of rufus-web-scraper.             *)
(*                                                                         *)
(* The repository holds two variants of class RufusClient:                 *)
(*   "base" : src/rufus.py      (a new page per followed link)             *)
(*   "rag"  : src/rufus_rag.py  (one page, _retry_navigation wrapper)      *)
(* The variable `variant` selects which of the two is running.             *)
(*                                                                         *)
(* scrape is a single coroutine; its position is the call stack `stack`    *)
(* of _crawl_links activations (top = last element).  Every call into the  *)
(* browser (goto, wait_for_selector, query_selector_all, get_attribute,    *)
(* new_page) either succeeds, times out or fails with another error; the   *)
(* outcome is chosen by the environment.  What a page contains (how many   *)
(* anchors, the href of each anchor, the text of the matched elements) is  *)
(* chosen by the environment when the code reads it.                       *)
(***************************************************************************)
EXTENDS Integers, Sequences, FiniteSets, TLC

\* ---------------------------------------------------------------- bounds
MaxPages  == 3      \* page budgets 1..MaxPages are tried
MaxLinks  == 2      \* anchors returned by one query_selector_all
MaxFaults == 3      \* failing external calls in one run
MaxLog    == 4      \* length cap of the per-loop attempt logs
MaxCalls  == 2      \* scrape calls made on one client
MaxData   == 3      \* records in an input of filter_data checked on its own

\* ------------------------------------------------------ program constants
max_retries    == 3     \* RufusClient.__init__ default
RagRetries     == 3     \* range(3) in _retry_navigation
RagRetrySleep  == 2     \* asyncio.sleep(2) in _retry_navigation

\* ---------------------------------------------------------------- strings
\* Strings are sequences of characters.
HttpPrefix == <<"h","t","t","p">>
UrlA   == <<"h","t","t","p","A">>
UrlB   == <<"h","t","t","p","B">>
UrlC   == <<"h","t","t","p","C">>
RelUrl == <<"/","R">>
EmptyStr == <<>>
None   == <<"None">>          \* Python None (no string equals it)

Seeds  == {UrlA}
Hrefs  == {UrlA, UrlB, UrlC, RelUrl, EmptyStr}
Urls   == {UrlA, UrlB, UrlC, RelUrl}

\* str.startswith
StartsWith(s, p) == Len(s) >= Len(p) /\ SubSeq(s, 1, Len(p)) = p

\* Python truthiness of an href value: None and "" are falsy
Truthy(h) == h # None /\ h # EmptyStr

\* raw texts of the elements the selector matches, per address
WhiteSpace == {" ", "\n", "\t"}
TextJobs    == <<" ","J","o","b","s","\n"," ","x">>
TextContact == <<"H","i">>
PageElems(u) ==
  IF u = UrlA THEN <<TextJobs, TextContact>>
  ELSE IF u = UrlB THEN <<TextContact>>
  ELSE <<TextJobs>>

VARIABLES
  variant,      \* "base" (rufus.py) or "rag" (rufus_rag.py)
  status,       \* "idle", "running", "exiting" (scrape is done and the
                \* `async with` block is being left), "returned", "raised"
  url,          \* the seed address passed to scrape
  pages,        \* the page budget passed to scrape
  visited,      \* the visited set
  all_data,     \* self.all_data
  stack,        \* activations of _crawl_links, innermost last
  pending,      \* how scrape is about to end: "none", "return", "raise"
  ctx,          \* browser context: "none", "open" (created and
                \* context.close() not called), "closed"
  driver,       \* the `async with async_playwright()` block: "none",
                \* "started" (entered), "stopped" (left, __aexit__ called)
  open,         \* ids of the pages currently open
  result,       \* value returned by scrape
  faults,       \* number of failed external calls so far
  obs           \* history record (observations, never read by the program):
                \*   admits        url -> number of times it was added to visited
                \*   navigated     urls for which a page load (goto) was issued
                \*   navFailed     urls whose _navigate_to_url ended in failure
                \*   extractFailed urls whose extraction raised
                \*   contributed   urls whose crawl appended records to all_data
                \*   descended     urls whose crawl enumerated the page's anchors
                \*   seedLinks     hrefs held by the anchors of the seed page
                \*   setup         browser, context and first page were opened
                \*   giveup        last load loop that gave up after timeouts only
                \*   loadFault     some page load, page opening or extraction failed
                \*   extracts      url -> number of extractions attempted on it
                \*   src           for each record appended in this call, the url
                \*                 whose crawl appended it
                \*   calls         scrape calls started on this client
                \*   carried       length of all_data when the current call started

prog  == <<variant, status, url, pages, visited, all_data, stack, pending, ctx,
           driver, open, result, faults>>
vars  == <<prog, obs>>

NoGiveup == [url |-> None, by |-> "none", log |-> <<>>]

\* nothing observed yet
NoObs ==
  [admits |-> [u \in Urls |-> 0], navigated |-> {}, navFailed |-> {},
   extractFailed |-> {}, contributed |-> {}, descended |-> {},
   seedLinks |-> {}, setup |-> FALSE, giveup |-> NoGiveup, loadFault |-> FALSE,
   extracts |-> [u \in Urls |-> 0], src |-> <<>>, calls |-> 1, carried |-> 0]

\* ------------------------------------------------------------ activations
NewFrame(u, p) ==
  [url |-> u, page |-> p, pc |-> "admit", attempt |-> 0, navlog |-> <<>>,
   n |-> 0, i |-> 0, next_url |-> None, new_page |-> 0,
   rattempt |-> 0, linklog |-> <<>>,
   ord |-> 0]       \* history: size of visited right after url was added

Top       == stack[Len(stack)]
Pop(s)    == SubSeq(s, 1, Len(s) - 1)
SetTop(f) == [stack EXCEPT ![Len(stack)] = f]
Running   == status = "running" /\ stack # <<>>
At(l)     == Running /\ Top.pc = l

Log(l, out, sleep) ==
  IF Len(l) < MaxLog THEN Append(l, [out |-> out, sleep |-> sleep]) ELSE l

AllTimeouts(l) == l # <<>> /\ \A k \in 1..Len(l) : l[k].out = "timeout"

RECURSIVE Pow2(_)
Pow2(k) == IF k = 0 THEN 1 ELSE 2 * Pow2(k - 1)

FailKinds == {"timeout", "error"}
CanFail   == faults < MaxFaults

\* ------------------------------------------------------- text and filter
RECURSIVE LStrip(_)
LStrip(t) == IF t # <<>> /\ Head(t) \in WhiteSpace THEN LStrip(Tail(t)) ELSE t

RECURSIVE RStrip(_)
RStrip(t) ==
  IF t # <<>> /\ t[Len(t)] \in WhiteSpace THEN RStrip(SubSeq(t, 1, Len(t) - 1))
  ELSE t

\* element.get_text(strip=True) of an element holding one text node
GetTextStrip(t) == RStrip(LStrip(t))

\* re.sub(r'\s+', ' ', t)
RECURSIVE CollapseWs(_)
CollapseWs(t) ==
  IF t = <<>> THEN <<>>
  ELSE IF Head(t) \in WhiteSpace THEN <<" ">> \o CollapseWs(LStrip(Tail(t)))
  ELSE <<Head(t)>> \o CollapseWs(Tail(t))

LowerChar(c) ==
  CASE c = "J" -> "j" [] c = "H" -> "h" [] c = "C" -> "c"
    [] c = "O" -> "o" [] c = "B" -> "b" [] c = "S" -> "s" [] OTHER -> c

\* str.lower
Lower(t) == [k \in 1..Len(t) |-> LowerChar(t[k])]

keywords ==
  { <<"j","o","b">>,
    <<"e","m","p","l","o","y","m","e","n","t">>,
    <<"c","a","r","e","e","r">>,
    <<"i","n","t","e","r","n","s","h","i","p">>,
    <<"f","e","l","l","o","w","s","h","i","p">> }

\* `keyword in text` (substring test)
Contains(t, k) ==
  \E j \in 0..(Len(t) - Len(k)) : SubSeq(t, j + 1, j + Len(k)) = k

\* tokens of a text: maximal runs of non-whitespace characters
RECURSIVE Tokens(_, _)
Tokens(t, cur) ==
  IF t = <<>> THEN (IF cur = <<>> THEN <<>> ELSE <<cur>>)
  ELSE IF Head(t) \in WhiteSpace
       THEN (IF cur = <<>> THEN <<>> ELSE <<cur>>) \o Tokens(Tail(t), <<>>)
       ELSE Tokens(Tail(t), Append(cur, Head(t)))

\* token.lemma_ of the language model, for the words used here
Lemma(w) == IF w = <<"j","o","b","s">> THEN <<"j","o","b">> ELSE w

\* RufusClient._is_relevant (rufus.py)
IsRelevant(text) ==
  LET toks == Tokens(text, <<>>)
  IN  \E k \in 1..Len(toks) : Lemma(toks[k]) \in keywords

\* the loop of filter_data with the seen-set keyed by the content as it
\* is, not lowercased
RECURSIVE FilterSeenCased(_, _)
FilterSeenCased(data, seen) ==
  IF data = <<>> THEN <<>>
  ELSE LET item    == Head(data)
           content == Lower(item.content)
       IN  IF IsRelevant(content) /\ item.content \notin seen
           THEN <<item>> \o FilterSeenCased(Tail(data), seen \cup {item.content})
           ELSE FilterSeenCased(Tail(data), seen)

RECURSIVE FilterSeen(_, _)
FilterSeen(data, seen) ==
  IF data = <<>> THEN <<>>
  ELSE LET item    == Head(data)
           content == Lower(item.content)
       IN  IF IsRelevant(content) /\ content \notin seen
           THEN <<item>> \o FilterSeen(Tail(data), seen \cup {content})
           ELSE FilterSeen(Tail(data), seen)

\* RufusClient.filter_data of rufus.py
FilterDataBase(data) == FilterSeen(data, {})

\* RufusClient.filter_data of rufus_rag.py
FilterDataRag(data) ==
  SelectSeq(data, LAMBDA item :
                    \E k \in keywords : Contains(Lower(item.content), k))

filter_data(v, data) ==
  IF v = "base" THEN FilterDataBase(data) ELSE FilterDataRag(data)

\* records numbered from 0
RecordsZeroBased(elems, page_num) ==
  [k \in 1..Len(elems) |->
     [prompt |-> "prompt", page |-> page_num - 1,
      content |-> CollapseWs(GetTextStrip(elems[k]))]]

\* the records _extract_data_from_page appends for the matched elements
Records(elems, page_num) ==
  [k \in 1..Len(elems) |->
     [prompt |-> "prompt", page |-> page_num,
      content |-> CollapseWs(GetTextStrip(elems[k]))]]

\* --------------------------------------------------------------- helpers
\* variants of the admission check with one condition wrong
RejectsNoBudget(v, budget, u)  == u \in v
RejectsOffByOne(v, budget, u)  == Cardinality(v) + 1 >= budget \/ u \in v
RejectsNoDup(v, budget, u)     == Cardinality(v) >= budget

\* `if len(visited) >= pages or url in visited: return`
Rejects(v, budget, u) == Cardinality(v) >= budget \/ u \in v

\* the link test without the scheme test
FollowsAny(h, v) == Truthy(h) /\ h \notin v

\* `if next_url and next_url.startswith('http') and next_url not in visited`
Follows(h, v) == Truthy(h) /\ StartsWith(h, HttpPrefix) /\ h \notin v

\* a loop that does not advance
NextLinkStuck(i) == i

\* the loop variable of `for link in links` after one iteration
NextLink(i) == i + 1

\* the loop variable of `for attempt in range(...)` after one iteration
NextAttempt(a) == a + 1

\* the loop body is done with the current link: on to the next one
EndLink(f) ==
  [f EXCEPT !.pc = "loop", !.i = NextLink(@), !.next_url = None,
            !.new_page = 0, !.rattempt = 0, !.linklog = <<>>]

\* what the caller does when _crawl_links returns normally:
\*   rufus.py      the finally clause closes new_page, then the next link
\*   rufus_rag.py  `break` leaves the retry loop, then the next link
Resume(f) ==
  IF variant = "base" THEN [f EXCEPT !.pc = "close"] ELSE EndLink(f)

\* the sleep that ends the current attempt, noted on its log entry
Slept(l, sleep) ==
  IF l = <<>> THEN l ELSE [l EXCEPT ![Len(l)].sleep = sleep]

\* what the caller does when _crawl_links raises an exception of this kind:
\*   rufus.py      finally closes new_page, the except clauses of the loop
\*                 body log it, then the next link
\*   rufus_rag.py  _retry_navigation logs it, sleeps 2s when it is a
\*                 PlaywrightTimeoutError, and goes to its next attempt
Catch(f, kind) ==
  IF variant = "base" THEN [f EXCEPT !.pc = "close"]
  ELSE [f EXCEPT !.pc = "retry", !.rattempt = NextAttempt(@),
                 !.linklog = IF kind = "timeout" THEN Slept(@, RagRetrySleep)
                             ELSE @]

\* _crawl_links returns
DoReturn ==
  LET r == Pop(stack)
  IN  /\ stack' = IF r = <<>> THEN r ELSE [r EXCEPT ![Len(r)] = Resume(@)]
      /\ pending' = IF r = <<>> THEN "return" ELSE pending

\* _crawl_links raises an exception of this kind; in rufus_rag.py scrape
\* catches and logs it
DoRaise(kind) ==
  LET r == Pop(stack)
  IN  /\ stack' = IF r = <<>> THEN r ELSE [r EXCEPT ![Len(r)] = Catch(@, kind)]
      /\ pending' = IF r # <<>> THEN pending
                    ELSE IF variant = "base" THEN "raise" ELSE "return"

FreshPage == CHOOSE p \in 1..(Cardinality(open) + 1) : p \notin open

Inc(f, u) == [f EXCEPT ![u] = IF @ < MaxLog THEN @ + 1 ELSE @]

\* ------------------------------------------------------------------ Init
Init ==
  /\ variant \in {"base", "rag"}
  /\ url \in Seeds
  /\ pages \in 1..MaxPages
  /\ status = "idle"
  /\ visited = {}
  /\ all_data = <<>>
  /\ stack = <<>>
  /\ pending = "none"
  /\ ctx = "none"
  /\ driver = "none"
  /\ open = {}
  /\ result = <<>>
  /\ faults = 0
  /\ obs = NoObs

\* ---------------------------------------------------------------- scrape
\* `async with async_playwright()` is entered; launch, new_context and
\* new_page succeed; _crawl_links is called
ScrapeOpen ==
  /\ status = "idle"
  /\ stack' = <<NewFrame(url, 1)>>
  /\ status' = "running"
  /\ visited' = {}
  /\ ctx' = "open"
  /\ driver' = "started"
  /\ open' = {1}
  /\ obs' = [obs EXCEPT !.setup = TRUE]
  /\ UNCHANGED <<variant, url, pages, all_data, pending, result, faults>>

\* the with block is entered and chromium.launch or browser.new_context
\* raises: there is no context; the exception leaves the with block
ScrapeLaunchFails ==
  /\ status = "idle" /\ CanFail
  /\ status' = "exiting"
  /\ pending' = "raise"
  /\ driver' = "started"
  /\ faults' = faults + 1
  /\ obs' = [obs EXCEPT !.loadFault = TRUE]
  /\ UNCHANGED <<variant, url, pages, visited, all_data, stack, ctx, open, result>>

\* the with block is entered and context.new_page raises.  rufus.py calls
\* it before the try statement, so the finally clause with context.close()
\* does not run and the exception leaves the with block; rufus_rag.py calls
\* it inside the try statement, so the error is logged, the context closed
\* and filter_data evaluated for the return statement.
ScrapeNewPageFails ==
  /\ status = "idle" /\ CanFail
  /\ faults' = faults + 1
  /\ status' = "exiting"
  /\ driver' = "started"
  /\ IF variant = "base"
     THEN /\ pending' = "raise" /\ ctx' = "open" /\ result' = result
     ELSE /\ pending' = "return" /\ ctx' = "closed"
          /\ result' = filter_data(variant, all_data)
  /\ obs' = [obs EXCEPT !.loadFault = TRUE]
  /\ UNCHANGED <<variant, url, pages, visited, all_data, stack, open>>

\* the finally clause of scrape: context.close() (which closes the pages of
\* the context), then the return statement evaluates filter_data, or the
\* exception goes on propagating
ScrapeFinally ==
  /\ status = "running" /\ stack = <<>> /\ pending # "none"
  /\ ctx' = "closed"
  /\ open' = {}
  /\ status' = "exiting"
  /\ result' = IF pending = "raise" THEN result
               ELSE filter_data(variant, all_data)
  /\ UNCHANGED <<variant, url, pages, visited, all_data, stack, pending, driver,
                 faults, obs>>

\* the `async with async_playwright() as p` block is left, by the return
\* statement or by an exception: its __aexit__ is called, then scrape
\* returns or raises.  The step makes no call on the context or its pages.
ScrapeExit ==
  /\ status = "exiting"
  /\ driver' = "stopped"
  /\ status' = IF pending = "raise" THEN "raised" ELSE "returned"
  /\ UNCHANGED <<variant, url, pages, visited, all_data, stack, pending, ctx,
                 open, result, faults, obs>>

\* ---------------------------------------------------------- _crawl_links
\* the admission check and visited.add(url)
Admit ==
  /\ At("admit")
  /\ IF Rejects(visited, pages, Top.url)
     THEN DoReturn /\ UNCHANGED <<visited, obs>>
     ELSE /\ visited' = visited \cup {Top.url}
          /\ obs' = [obs EXCEPT !.admits = Inc(@, Top.url)]
          /\ stack' = SetTop([Top EXCEPT !.pc = "nav", !.attempt = 0,
                                         !.navlog = <<>>,
                                         !.ord = Cardinality(visited')])
          /\ pending' = pending
  /\ UNCHANGED <<driver, variant, status, url, pages, all_data, ctx, open, result, faults>>

\* ------------------------------------------------------ _navigate_to_url
\* one attempt in which goto, wait_for_load_state, evaluate and
\* wait_for_timeout all succeed
NavigateOk ==
  /\ At("nav") /\ Top.attempt < max_retries
  /\ stack' = SetTop([Top EXCEPT !.pc = "extract", !.navlog = <<>>])
  /\ obs' = [obs EXCEPT !.navigated = @ \cup {Top.url}]
  /\ UNCHANGED <<driver, variant, status, url, pages, visited, all_data, pending, ctx, open,
                 result, faults>>

\* one attempt that raises PlaywrightTimeoutError: sleep 2 ** attempt
NavigateTimeout ==
  /\ At("nav") /\ Top.attempt < max_retries /\ CanFail
  /\ stack' = SetTop([Top EXCEPT !.attempt = NextAttempt(@),
                                 !.navlog = Log(@, "timeout", Pow2(Top.attempt))])
  /\ obs' = [obs EXCEPT !.navigated = @ \cup {Top.url}, !.loadFault = TRUE]
  /\ faults' = faults + 1
  /\ UNCHANGED <<driver, variant, status, url, pages, visited, all_data, pending, ctx, open,
                 result>>

\* one attempt that raises another exception: log and return
NavigateError ==
  /\ At("nav") /\ Top.attempt < max_retries /\ CanFail
  /\ stack' = SetTop([Top EXCEPT !.pc = "extract", !.navlog = <<>>])
  /\ obs' = [obs EXCEPT !.navigated = @ \cup {Top.url},
                        !.navFailed = @ \cup {Top.url}, !.loadFault = TRUE]
  /\ faults' = faults + 1
  /\ UNCHANGED <<driver, variant, status, url, pages, visited, all_data, pending, ctx, open,
                 result>>

\* the for loop is exhausted: "Failed to load ... after multiple retries"
NavigateExhausted ==
  /\ At("nav") /\ Top.attempt >= max_retries
  /\ stack' = SetTop([Top EXCEPT !.pc = "extract", !.navlog = <<>>])
  /\ obs' = [obs EXCEPT !.navFailed = @ \cup {Top.url},
                        !.giveup = IF AllTimeouts(Top.navlog)
                                   THEN [url |-> Top.url, by |-> "navigate",
                                         log |-> Top.navlog]
                                   ELSE @]
  /\ UNCHANGED <<driver, variant, status, url, pages, visited, all_data, pending, ctx, open,
                 result, faults>>

\* ----------------------------------------------- _extract_data_from_page
ExtractOk ==
  /\ At("extract")
  /\ all_data' = all_data \o Records(PageElems(Top.url), Cardinality(visited))
  /\ stack' = SetTop([Top EXCEPT !.pc = "query"])
  /\ obs' = [obs EXCEPT !.contributed = @ \cup {Top.url},
                        !.extracts = Inc(@, Top.url),
                        !.src = @ \o [k \in 1..Len(PageElems(Top.url)) |-> Top.url]]
  /\ UNCHANGED <<driver, variant, status, url, pages, visited, pending, ctx, open, result,
                 faults>>

\* wait_for_selector or page.content raises (before any record is appended):
\* rufus.py logs and returns, rufus_rag.py logs and goes on
ExtractFails ==
  /\ At("extract") /\ CanFail
  /\ faults' = faults + 1
  /\ obs' = [obs EXCEPT !.extractFailed = @ \cup {Top.url},
                        !.extracts = Inc(@, Top.url),
                        !.loadFault = TRUE]
  /\ IF variant = "base"
     THEN DoReturn
     ELSE stack' = SetTop([Top EXCEPT !.pc = "query"]) /\ pending' = pending
  /\ UNCHANGED <<driver, variant, status, url, pages, visited, all_data, ctx, open, result>>

\* ------------------------------------------------- link enumeration loop
\* page.query_selector_all('a[href]') returns n element handles
QueryLinks ==
  /\ At("query")
  /\ \E n \in 0..MaxLinks :
       stack' = SetTop([Top EXCEPT !.pc = "loop", !.n = n, !.i = 0])
  /\ obs' = [obs EXCEPT !.descended = @ \cup {Top.url}]
  /\ UNCHANGED <<driver, variant, status, url, pages, visited, all_data, pending, ctx, open,
                 result, faults>>

\* page.query_selector_all raises: nothing in _crawl_links catches it
QueryLinksFails ==
  /\ At("query") /\ CanFail
  /\ faults' = faults + 1
  /\ \E kind \in FailKinds : DoRaise(kind)
  /\ UNCHANGED <<driver, variant, status, url, pages, visited, all_data, ctx, open, result,
                 obs>>

\* the for loop over links is exhausted: _crawl_links returns
LoopDone ==
  /\ At("loop") /\ Top.i >= Top.n
  /\ DoReturn
  /\ UNCHANGED <<driver, variant, status, url, pages, visited, all_data, ctx, open, result,
                 faults, obs>>

\* get_attribute('href') returns h; the link is followed or skipped
ReadHref ==
  /\ At("loop") /\ Top.i < Top.n
  /\ \E h \in Hrefs :
       /\ stack' = SetTop(
            IF Follows(h, visited)
            THEN [Top EXCEPT !.next_url = h, !.rattempt = 0, !.linklog = <<>>,
                             !.pc = IF variant = "base" THEN "newpage"
                                    ELSE "retry"]
            ELSE [Top EXCEPT !.i = NextLink(@)])
       /\ obs' = [obs EXCEPT !.seedLinks =
                    IF Len(stack) = 1 THEN @ \cup {h} ELSE @]
  /\ UNCHANGED <<driver, variant, status, url, pages, visited, all_data, pending, ctx, open,
                 result, faults>>

\* get_attribute raises and nothing catches it inside _crawl_links
ReadHrefFailsAborts ==
  /\ At("loop") /\ Top.i < Top.n /\ CanFail
  /\ faults' = faults + 1
  /\ \E kind \in FailKinds : DoRaise(kind)
  /\ UNCHANGED <<driver, variant, status, url, pages, visited, all_data, ctx, open,
                 result, obs>>

\* get_attribute raises: rufus.py logs it in the except clauses of the loop
\* body, rufus_rag.py returns None from _get_link_href; the link is skipped
ReadHrefFails ==
  /\ At("loop") /\ Top.i < Top.n /\ CanFail
  /\ faults' = faults + 1
  /\ stack' = SetTop([Top EXCEPT !.i = NextLink(@)])
  /\ \E h \in Hrefs :        \* the href the anchor holds, which was not read
       obs' = [obs EXCEPT !.seedLinks =
                 IF Len(stack) = 1 THEN @ \cup {h} ELSE @]
  /\ UNCHANGED <<driver, variant, status, url, pages, visited, all_data, pending, ctx, open,
                 result>>

\* ------------------------------------------- rufus.py: following a link
NewPageOk ==
  /\ At("newpage")
  /\ open' = open \cup {FreshPage}
  /\ stack' = SetTop([Top EXCEPT !.new_page = FreshPage, !.pc = "linkgoto"])
  /\ UNCHANGED <<driver, variant, status, url, pages, visited, all_data, pending, ctx,
                 result, faults, obs>>

\* page.context.new_page raises: logged, next link
NewPageFails ==
  /\ At("newpage") /\ CanFail
  /\ faults' = faults + 1
  /\ stack' = SetTop(EndLink(Top))
  /\ obs' = [obs EXCEPT !.loadFault = TRUE]
  /\ UNCHANGED <<driver, variant, status, url, pages, visited, all_data, pending, ctx, open,
                 result>>

\* new_page.goto(next_url) succeeds: _crawl_links(new_page, next_url, ...)
LinkGotoOk ==
  /\ At("linkgoto")
  /\ stack' = Append(SetTop([Top EXCEPT !.pc = "incall",
                                        !.linklog = Log(@, "ok", 0)]),
                     NewFrame(Top.next_url, Top.new_page))
  /\ obs' = [obs EXCEPT !.navigated = @ \cup {Top.next_url}]
  /\ UNCHANGED <<driver, variant, status, url, pages, visited, all_data, pending, ctx, open,
                 result, faults>>

\* new_page.goto(next_url) raises: the finally clause closes the page and
\* the except clauses log it; the load is not repeated
LinkGotoFails ==
  /\ At("linkgoto") /\ CanFail
  /\ faults' = faults + 1
  /\ \E kind \in FailKinds :
       /\ stack' = SetTop([Top EXCEPT !.pc = "close",
                                      !.linklog = Log(@, kind, 0)])
       /\ obs' = [obs EXCEPT !.navigated = @ \cup {Top.next_url},
                             !.loadFault = TRUE,
                             !.giveup = IF kind = "timeout"
                                        THEN [url |-> Top.next_url, by |-> "link",
                                              log |-> Log(Top.linklog, kind, 0)]
                                        ELSE @]
  /\ UNCHANGED <<driver, variant, status, url, pages, visited, all_data, pending, ctx, open,
                 result>>

\* the next link is taken without closing the page
ClosePageLeaks ==
  /\ At("close")
  /\ stack' = SetTop(EndLink(Top))
  /\ UNCHANGED <<driver, variant, status, url, pages, visited, all_data, pending, ctx,
                 open, result, faults, obs>>

\* `finally: await new_page.close()`, then the next link
ClosePage ==
  /\ At("close")
  /\ open' = open \ {Top.new_page}
  /\ stack' = SetTop(EndLink(Top))
  /\ UNCHANGED <<driver, variant, status, url, pages, visited, all_data, pending, ctx,
                 result, faults, obs>>

\* ------------------------------- rufus_rag.py: _retry_navigation
\* goto and wait_for_load_state succeed: _crawl_links(page, next_url, ...)
RetryGotoOk ==
  /\ At("retry") /\ Top.rattempt < RagRetries
  /\ stack' = Append(SetTop([Top EXCEPT !.pc = "incall",
                                        !.linklog = Log(@, "ok", 0)]),
                     NewFrame(Top.next_url, Top.page))
  /\ obs' = [obs EXCEPT !.navigated = @ \cup {Top.next_url}]
  /\ UNCHANGED <<driver, variant, status, url, pages, visited, all_data, pending, ctx, open,
                 result, faults>>

\* goto or wait_for_load_state raises: a timeout is followed by sleep(2),
\* any other exception is logged; both go to the next attempt
RetryGotoFails ==
  /\ At("retry") /\ Top.rattempt < RagRetries /\ CanFail
  /\ faults' = faults + 1
  /\ \E kind \in FailKinds :
       stack' = SetTop([Top EXCEPT
                   !.rattempt = NextAttempt(@),
                   !.linklog = Log(@, kind, IF kind = "timeout"
                                            THEN RagRetrySleep ELSE 0)])
  /\ obs' = [obs EXCEPT !.navigated = @ \cup {Top.next_url},
                        !.loadFault = TRUE]
  /\ UNCHANGED <<driver, variant, status, url, pages, visited, all_data, pending, ctx, open,
                 result>>

\* range(3) is exhausted: _retry_navigation returns, next link
RetryExhausted ==
  /\ At("retry") /\ Top.rattempt >= RagRetries
  /\ stack' = SetTop(EndLink(Top))
  /\ obs' = [obs EXCEPT !.giveup = IF AllTimeouts(Top.linklog)
                                   THEN [url |-> Top.next_url, by |-> "retry",
                                         log |-> Top.linklog]
                                   ELSE @]
  /\ UNCHANGED <<driver, variant, status, url, pages, visited, all_data, pending, ctx, open,
                 result, faults>>

\* ------------------------------------------------------------------ Next
Next ==
  \/ ScrapeOpen \/ ScrapeLaunchFails \/ ScrapeNewPageFails \/ ScrapeFinally
  \/ ScrapeExit
  \/ Admit
  \/ NavigateOk \/ NavigateTimeout \/ NavigateError \/ NavigateExhausted
  \/ ExtractOk \/ ExtractFails
  \/ QueryLinks \/ QueryLinksFails
  \/ LoopDone \/ ReadHref \/ ReadHrefFails
  \/ NewPageOk \/ NewPageFails \/ LinkGotoOk \/ LinkGotoFails \/ ClosePage
  \/ RetryGotoOk \/ RetryGotoFails \/ RetryExhausted

Spec == Init /\ [][Next]_vars

\* the coroutine always takes its next step: every external call returns
\* or fails
FairSpec == Spec /\ WF_vars(Next)

Ended == status \in {"returned", "raised"}

\* ------------------------------------- several calls on the same client
\* scrape has ended and the caller calls it again on the same RufusClient
\* with the same arguments; nothing of the client is re-created
\* (self.all_data is only assigned in __init__)
ScrapeAgain ==
  /\ Ended /\ obs.calls < MaxCalls
  /\ status' = "idle"
  /\ pending' = "none"
  /\ ctx' = "none"
  /\ driver' = "none"
  /\ open' = {}
  /\ obs' = [NoObs EXCEPT !.calls = obs.calls + 1, !.carried = Len(all_data)]
  /\ UNCHANGED <<variant, url, pages, visited, all_data, stack, result, faults>>

NextCalls == Next \/ ScrapeAgain

CallsSpec == Init /\ [][NextCalls]_vars

\* ------------------------------------------------ filter_data on its own
\* contents of records handed to filter_data (whitespace already collapsed)
FilterContents ==
  { <<"J","o","b","s">>, <<"j","o","b","s">>, <<"j","o","b"," ","x">>,
    <<"j","o","b","l","e","s","s">>, <<"H","i">> }

FilterRecords ==
  [prompt : {"prompt"}, page : {1, 2}, content : FilterContents]

FilterInputs == UNION { [1..k -> FilterRecords] : k \in 0..MaxData }

\* a client about to call filter_data(data) on an arbitrary record list
InitFilter ==
  /\ variant \in {"base", "rag"}
  /\ url \in Seeds
  /\ pages = 1
  /\ status = "filter"
  /\ visited = {}
  /\ all_data \in FilterInputs
  /\ stack = <<>>
  /\ pending = "none"
  /\ ctx = "none"
  /\ driver = "none"
  /\ open = {}
  /\ result = <<>>
  /\ faults = 0
  /\ obs = NoObs

\* filter_data(self.all_data)
FilterApply ==
  /\ status = "filter"
  /\ result' = filter_data(variant, all_data)
  /\ status' = "filtered"
  /\ UNCHANGED <<driver, variant, url, pages, visited, all_data, stack, pending, ctx,
                 open, faults, obs>>

NextFilter == FilterApply

FilterSpec == InitFilter /\ [][NextFilter]_vars

\* ================================================================ claims
Frames == {stack[k] : k \in 1..Len(stack)}
SeedTargets == {h \in obs.seedLinks : StartsWith(h, HttpPrefix)} \ {url}

\* C1: the visited set never holds more addresses than the page budget, and
\* no address is added to it more than once, whatever fails.
C1_VisitedWithinBudget ==
  /\ Cardinality(visited) <= pages
  /\ \A u \in Urls : obs.admits[u] <= 1

\* the budget is used up, a call failed, and a link that was loaded was
\* refused by the admission check
C1_Witness ==
  /\ status = "returned" /\ pages >= 2 /\ Cardinality(visited) = pages
  /\ faults > 0 /\ obs.navigated \ visited # {}

\* C2 (as stated): a page load is only ever issued for an address that is
\* already in the visited set.
C2_LoadOnlyAfterAdmission == obs.navigated \subseteq visited

\* C3 (as stated): if no page load and no extraction failed and the seed
\* page links to at least pages-1 distinct absolute addresses other than
\* the seed, scrape returns with exactly `pages` addresses visited.
C3_ExactBudgetNoLoadFault ==
  (status = "returned" /\ ~obs.loadFault
     /\ Cardinality(SeedTargets) >= pages - 1)
  => Cardinality(visited) = pages

\* C3 (amended): if no external call failed at all (page loads, extraction,
\* link enumeration, href reads, page opening) and the seed page links to
\* at least pages-1 distinct absolute addresses other than the seed, scrape
\* returns with exactly `pages` addresses visited.
C3_ExactBudgetNoFault ==
  (status = "returned" /\ faults = 0
     /\ Cardinality(SeedTargets) >= pages - 1)
  => Cardinality(visited) = pages

\* budget 3, a failure-free crawl whose seed links to two other addresses
C3_Witness ==
  /\ status = "returned" /\ faults = 0 /\ pages = 3
  /\ Cardinality(SeedTargets) = 2 /\ Cardinality(visited) = 3

\* C4 (as stated): an address whose navigation failed stays visited,
\* contributes no record and is not descended from.
C4_FailedNavigationTruncates ==
  \A u \in obs.navFailed :
     u \in visited /\ u \notin obs.contributed /\ u \notin obs.descended

\* C5 (as stated): a load loop that gives up after nothing but timeouts has
\* made exactly max_retries attempts, and the sleep after attempt k
\* (0-indexed) lasted 2^k seconds.
C5_RetriesWithBackoff ==
  obs.giveup.by # "none" =>
     /\ Len(obs.giveup.log) = max_retries
     /\ \A k \in 1..Len(obs.giveup.log) :
          obs.giveup.log[k].sleep = Pow2(k - 1)

\* C6 (as stated): within one load loop, an attempt that failed with a
\* non-timeout error is the last attempt of that loop.
C6_NoRetryAfterError ==
  \A f \in Frames :
     /\ \A k \in 1..(Len(f.navlog) - 1)  : f.navlog[k].out  # "error"
     /\ \A k \in 1..(Len(f.linklog) - 1) : f.linklog[k].out # "error"

\* C7 (as stated): an address whose extraction failed contributes no record
\* and none of its links is enumerated or followed.
C7_FailedExtractionTruncates ==
  \A u \in obs.extractFailed :
     u \notin obs.contributed /\ u \notin obs.descended

\* C8 (as stated): once browser, context and first page are open, scrape
\* does not end by raising.
C8_NeverRaisesAfterSetup == ~(status = "raised" /\ obs.setup)

\* C9: every crawl ends, for every link structure (self-loops and cycles
\* included) and every budget, when each external call returns or fails.
C9_Terminates == <>Ended

\* a crawl that ended after the seed page linked to itself and another
\* address was crawled
C9_Witness ==
  Ended /\ url \in obs.seedLinks /\ Cardinality(visited) >= 2

\* C10 (as stated): every page opened for a link is held by the activation
\* that is working on that link (it is closed before the next link is
\* taken), and when scrape has returned or raised no page is open and the
\* browser context has been closed.
C10_AllReleased ==
  /\ open \subseteq ({1} \cup {f.new_page : f \in Frames})
  /\ \A f \in Frames : f.pc = "loop" => f.new_page = 0
  /\ Ended => (open = {} /\ ctx # "open")

\* ---------------------------------------------------------------- C11, C12
LowerContent(data, k) == Lower(data[k].content)

\* C11 (as stated): the output of filter_data never holds two records whose
\* lowercased contents are equal.
C11_NoDuplicateContent ==
  status = "filtered" =>
     \A j, k \in 1..Len(result) :
        j # k => LowerContent(result, j) # LowerContent(result, k)

\* the positions of the input that a stable first-occurrence filter keeps:
\* relevant, and no earlier record has the same lowercased content
KeptPositions(data) ==
  { k \in 1..Len(data) :
      /\ IsRelevant(LowerContent(data, k))
      /\ \A j \in 1..(k - 1) : LowerContent(data, j) # LowerContent(data, k) }

\* the records at the given positions, in input order
AtPositions(data, ks) ==
  LET nth(m) == CHOOSE k \in ks : Cardinality({j \in ks : j < k}) = m - 1
  IN  [m \in 1..Cardinality(ks) |-> data[nth(m)]]

\* C12: the output of filter_data of rufus.py is the subsequence of the
\* input, in input order, made of the first record of every relevant
\* lowercased content; every other record is dropped.
C12_StableFirstOccurrenceFilter ==
  (status = "filtered" /\ variant = "base")
  => result = AtPositions(all_data, KeptPositions(all_data))

\* three records: an irrelevant one, a relevant one and a later record
\* that differs from it only in case; one record is emitted
C12_Witness ==
  /\ status = "filtered" /\ variant = "base"
  /\ Len(all_data) = 3 /\ Len(result) = 1
  /\ \E i, j, k \in 1..3 :
       /\ j < k /\ i \notin {j, k}
       /\ ~IsRelevant(LowerContent(all_data, i))
       /\ IsRelevant(LowerContent(all_data, j))
       /\ all_data[j].content # all_data[k].content
       /\ LowerContent(all_data, j) = LowerContent(all_data, k)
       /\ result[1] = all_data[j]

\* -------------------------------------------------------------------- C13
\* the records appended to all_data since the current scrape call started
AppendedThisCall == SubSeq(all_data, obs.carried + 1, Len(all_data))

\* C13 (as stated): what a scrape call returns is the filtered list of the
\* records extracted during that call; nothing of an earlier call is in it.
C13_ResultOfThisCallOnly ==
  status = "returned" => result = filter_data(variant, AppendedThisCall)

\* -------------------------------------------------------------------- C14
\* C14: an admission attempt for an address that is already in the visited
\* set is rejected (_crawl_links returns at once) and leaves the visited
\* set as it is, whether or not budget remains.
C14_AdmissionIdempotent ==
  [][ (At("admit") /\ Top.url \in visited)
        => (visited' = visited /\ Len(stack') = Len(stack) - 1) ]_vars

\* _crawl_links is entered again for an admitted address while budget
\* remains (the retry wrapper of rufus_rag.py calls it again)
C14_Witness ==
  At("admit") /\ Top.url \in visited /\ Cardinality(visited) < pages

\* -------------------------------------------------------------------- C15
\* C15: within one crawl, extraction is attempted at most once per address.
C15_ExtractOncePerAddress == \A u \in Urls : obs.extracts[u] <= 1

\* _crawl_links is invoked again for an address it has already extracted
\* from (the retry wrapper of rufus_rag.py after the first invocation raised)
C15_Witness ==
  /\ Len(stack) >= 2 /\ At("admit")
  /\ Top.url \in visited /\ obs.extracts[Top.url] = 1

\* -------------------------------------------------------------------- C16
\* a call made for the current link (reading its href, opening a page for
\* it, loading it) fails
LinkStepFails ==
  /\ Running /\ Top.pc \in {"loop", "newpage", "linkgoto", "retry"}
  /\ faults' = faults + 1

\* the loop body gives the current link up: rufus.py closes the page opened
\* for it, rufus_rag.py has used up the attempts of _retry_navigation
LinkGivenUp ==
  \/ At("close") /\ Top.linklog # <<>> /\ Top.linklog[Len(Top.linklog)].out # "ok"
  \/ At("retry") /\ Top.rattempt >= RagRetries

\* C16: a failure to read the href of a link, or to open or load a link,
\* changes neither the visited set nor the accumulator and does not leave
\* the link loop of the page: the loop goes on with the next link.
C16_FailedLinkOnlySkipped ==
  [][ /\ LinkStepFails =>
           /\ visited' = visited /\ all_data' = all_data
           /\ Len(stack') = Len(stack) /\ Top'.n = Top.n
           /\ Top.pc \in {"loop", "newpage"}
                 => (Top'.pc = "loop" /\ Top'.i = Top.i + 1)
           /\ Top.pc = "linkgoto" => (Top'.pc = "close" /\ Top'.i = Top.i)
           /\ Top.pc = "retry" => (Top'.pc = "retry" /\ Top'.i = Top.i)
      /\ LinkGivenUp =>
           /\ visited' = visited /\ all_data' = all_data
           /\ Len(stack') = Len(stack) /\ Top'.n = Top.n
           /\ Top'.pc = "loop" /\ Top'.i = Top.i + 1 ]_vars

\* on the seed page the href of a link could not be read, nothing else
\* failed, the visited set holds the seed alone and a further link of the
\* page is about to be read
C16_Witness ==
  /\ Len(stack) = 1 /\ At("loop") /\ Top.i >= 1 /\ Top.i < Top.n
  /\ faults > 0 /\ ~obs.loadFault /\ visited = {url}
  /\ obs.navigated = {url}

\* -------------------------------------------------------------------- C17
\* C17: the page value of every record of a crawl is the size the visited
\* set had when the record's address was admitted; it lies in 1..pages,
\* records of one address share it and records of different addresses
\* differ in it.
C17_PageIsAdmissionOrdinal ==
  LET recs == AppendedThisCall
  IN  /\ Len(obs.src) = Len(recs)
      /\ \A k \in 1..Len(recs) : recs[k].page \in 1..pages
      /\ \A j, k \in 1..Len(recs) :
            (obs.src[j] = obs.src[k]) <=> (recs[j].page = recs[k].page)
      /\ \A f \in Frames : \A k \in 1..Len(recs) :
            (f.ord > 0 /\ obs.src[k] = f.url) => recs[k].page = f.ord

\* a crawl returned records of two addresses: two records of page 1 and a
\* record of page 2
C17_Witness ==
  /\ status = "returned" /\ obs.calls = 1
  /\ \E i, j, k \in 1..Len(all_data) :
       /\ i # j /\ all_data[i].page = 1 /\ all_data[j].page = 1
       /\ all_data[k].page = 2 /\ obs.src[k] # obs.src[i]

\* -------------------------------------------------------------------- C18
AbsoluteHttp(h) == Truthy(h) /\ StartsWith(h, HttpPrefix)

\* C18: every address other than the seed that is admitted or loaded, and
\* every href a page is opened or a load is attempted for, is non-empty and
\* starts with 'http'.
C18_OnlyHttpFollowed ==
  /\ \A u \in (visited \cup obs.navigated) \ {url} : AbsoluteHttp(u)
  /\ \A f \in Frames :
        f.pc \in {"newpage", "linkgoto", "retry", "incall", "close"}
           => AbsoluteHttp(f.next_url)

\* a failure-free crawl whose seed page held a relative or empty href next
\* to an absolute one: the absolute one was crawled
C18_Witness ==
  /\ status = "returned" /\ faults = 0
  /\ obs.seedLinks \cap {RelUrl, EmptyStr} # {}
  /\ visited \ {url} # {}

\* -------------------------------------------------------------------- C19
\* C19: in rufus.py at most pages + 1 pages are open at any time; every
\* open page is the first page or the page the link loop of an active
\* _crawl_links call holds for its current link.
C19_OpenPagesBounded ==
  variant = "base" =>
     /\ Cardinality(open) <= pages + 1
     /\ open \subseteq ({1} \cup {f.new_page : f \in Frames})

\* the budget is used up by a chain of nested pages and the innermost one
\* has opened a page for a further link
C19_Witness ==
  /\ variant = "base" /\ pages >= 2
  /\ Cardinality(visited) = pages /\ Cardinality(open) = pages + 1

====
